---- MODULE Spec2Model ----
(***************************************************************************)
(* Model of profile.py, the CloudLab profile that stitches OCT FPGA nodes  *)
(* to the FABRIC OCT-MGHPCC facility port.  The script is one sequential   *)
(* run: bind parameters, check them, parse the subnet, verifyParameters,   *)
(* build the request (hosts, FPGA sub-nodes, stitch node, links) and print *)
(* it.  Every statement group of the script is one action; pc is the       *)
(* position of the run in the script.                                      *)
(*                                                                         *)
(* Python strings that the script takes apart or builds (nodes, ip_subnet, *)
(* names, addresses, sizes) are sequences of one-character strings, so     *)
(* split, str() and the subnet parsers are computed, not assumed.          *)
(* Strings that are only compared or passed through are TLA+ strings.      *)
(*                                                                         *)
(* The script is Python 2 (it calls unicode()); the model follows the      *)
(* Python 2 semantics of the statements and of the ipaddress module.       *)
(***************************************************************************)
EXTENDS Integers, Sequences, FiniteSets, TLC

(***************************************************************************)
(* Program constants.                                                      *)
(***************************************************************************)
NODE_MIN == 1
NODE_MAX == 4
VLAN_MIN == 3110
VLAN_MAX == 3119

UMASS_CM == "urn:publicid:IDN+cloudlab.umass.edu+authority+cm"
CLEMSON_CM == "urn:publicid:IDN+clemson.cloudlab.us+authority+cm"
UBUNTU20 == "urn:publicid:IDN+emulab.net+image+emulab-ops//UBUNTU20-64-STD"
UBUNTU22 == "urn:publicid:IDN+emulab.net+image+emulab-ops//UBUNTU22-64-STD"
CENTOS8 == "urn:publicid:IDN+emulab.net+image+emulab-ops//CENTOS8-64-STD"

\* clusters, imageList and toolVersion: the values the parameter lists offer.
clusters == <<"", UMASS_CM>>
imageList == <<UBUNTU20, UBUNTU22>>
toolVersion == <<"2023.1", "2023.2">>

(***************************************************************************)
(* Bounds of the model.                                                    *)
(***************************************************************************)
\* Longest nodes string (characters).
MaxNodesLen == 4
\* node_count ranges over 0 .. NODE_MAX + MaxCountOver.
MaxCountOver == 1
\* tempFileSystemSize ranges over -1 .. MaxTempSize.
MaxTempSize == 1

(***************************************************************************)
(* Python string and integer primitives.                                   *)
(***************************************************************************)
DecDigits == <<"0", "1", "2", "3", "4", "5", "6", "7", "8", "9">>
HexLower == DecDigits \o <<"a", "b", "c", "d", "e", "f">>
HexUpper == DecDigits \o <<"A", "B", "C", "D", "E", "F">>

Min(a, b) == IF a < b THEN a ELSE b
Max(a, b) == IF a < b THEN b ELSE a

RECURSIVE Pow2(_)
Pow2(n) == IF n = 0 THEN 1 ELSE 2 * Pow2(n - 1)

RECURSIVE Digits(_)
Digits(n) ==
    IF n < 10 THEN <<DecDigits[n + 1]>>
    ELSE Digits(n \div 10) \o <<DecDigits[(n % 10) + 1]>>

\* str(n) of a Python int.
Str(n) == IF n < 0 THEN <<"-">> \o Digits(0 - n) ELSE Digits(n)

\* Characters of s that are in the sequence alphabet.
IsOver(s, alphabet) ==
    \A i \in 1..Len(s) : \E j \in 1..Len(alphabet) : alphabet[j] = s[i]

DigitVal(c, alphabet1, alphabet2) ==
    (CHOOSE j \in 1..Len(alphabet1) : alphabet1[j] = c \/ alphabet2[j] = c) - 1

\* int(s, base) of a non-empty string of digits of that base.
RECURSIVE IntOf(_, _)
IntOf(s, base) ==
    IF Len(s) = 0 THEN 0
    ELSE IntOf(SubSeq(s, 1, Len(s) - 1), base) * base
         + DigitVal(s[Len(s)], HexLower, HexUpper)

RECURSIVE SplitAcc(_, _, _, _, _)
SplitAcc(s, sep, i, cur, acc) ==
    IF i > Len(s) THEN Append(acc, cur)
    ELSE IF s[i] = sep THEN SplitAcc(s, sep, i + 1, <<>>, Append(acc, cur))
    ELSE SplitAcc(s, sep, i + 1, Append(cur, s[i]), acc)

\* s.split(sep) for a one-character separator: always at least one piece.
Split(s, sep) == SplitAcc(s, sep, 1, <<>>, <<>>)

(***************************************************************************)
(* The ipaddress module, as far as IPv4Network(s) and IPv6Network(s) with  *)
(* the default strict=True decide whether s parses.  A parsed network is   *)
(* [version, groups, prefixlen]; NoNetwork stands for the raised           *)
(* AddressValueError / NetmaskValueError / ValueError.  An IPv6 string     *)
(* with an embedded dotted IPv4 tail is not modelled (no input uses one).  *)
(***************************************************************************)
NoNetwork == [version |-> 0, groups |-> <<>>, prefixlen |-> 0]

HexAll == HexLower \o <<"A", "B", "C", "D", "E", "F">>

RECURSIVE StripZeros(_)
StripZeros(s) ==
    IF Len(s) > 1 /\ s[1] = "0" THEN StripZeros(Tail(s)) ELSE s

\* _parse_octet: decimal digits, at most three, no ambiguous leading zero, <= 255.
OctetOk(o) ==
    /\ Len(o) >= 1
    /\ IsOver(o, DecDigits)
    /\ Len(o) <= 3
    /\ ~(IntOf(o, 10) > 7 /\ o[1] = "0")
    /\ IntOf(o, 10) <= 255

\* _ip_int_from_string of IPv4: the four octets, or <<>> when it raises.
IPv4Octets(s) ==
    LET parts == Split(s, ".")
    IN  IF Len(s) > 0 /\ Len(parts) = 4 /\ \A k \in 1..4 : OctetOk(parts[k])
        THEN [k \in 1..4 |-> IntOf(parts[k], 10)]
        ELSE <<>>

\* _prefix_from_prefix_string: -1 when it raises NetmaskValueError.
PrefixFromPrefixString(m, maxlen) ==
    IF Len(m) >= 1 /\ IsOver(m, DecDigits) /\ Len(StripZeros(m)) <= 3
       /\ IntOf(StripZeros(m), 10) <= maxlen
    THEN IntOf(StripZeros(m), 10)
    ELSE -1

\* The netmask of prefix length p, octet by octet.
MaskOctets(p) ==
    [k \in 1..4 |-> 256 - Pow2(8 - Min(8, Max(0, p - 8 * (k - 1))))]

\* _prefix_from_ip_string: a dotted netmask, else a dotted hostmask, else -1.
PrefixFromIPString(m) ==
    LET o == IPv4Octets(m)
        inv == [k \in 1..4 |-> 255 - o[k]]
    IN  IF o = <<>> THEN -1
        ELSE IF \E p \in 0..32 : MaskOctets(p) = o
        THEN CHOOSE p \in 0..32 : MaskOctets(p) = o
        ELSE IF \E p \in 0..32 : MaskOctets(p) = inv
        THEN CHOOSE p \in 0..32 : MaskOctets(p) = inv
        ELSE -1

\* strict=True: no bit of the address below the prefix may be set.
HostBitsZero(groups, width, p) ==
    \A k \in 1..Len(groups) :
        groups[k] % Pow2(Min(width, Max(0, width * k - p))) = 0

ParseIPv4Network(s) ==
    LET addr == Split(s, "/")
        octs == IPv4Octets(addr[1])
        p == IF Len(addr) = 2
             THEN IF PrefixFromPrefixString(addr[2], 32) >= 0
                  THEN PrefixFromPrefixString(addr[2], 32)
                  ELSE PrefixFromIPString(addr[2])
             ELSE 32
    IN  IF Len(addr) > 2 THEN NoNetwork
        ELSE IF octs = <<>> THEN NoNetwork
        ELSE IF p < 0 THEN NoNetwork
        ELSE IF ~HostBitsZero(octs, 8, p) THEN NoNetwork
        ELSE [version |-> 4, groups |-> octs, prefixlen |-> p]

\* _parse_hextet: one to four hexadecimal digits.
HextetOk(h) == Len(h) >= 1 /\ Len(h) <= 4 /\ IsOver(h, HexAll)

\* _ip_int_from_string of IPv6: the eight hextets, or <<>> when it raises.
IPv6Hextets(s) ==
    LET parts == Split(s, ":")
        n == Len(parts)
        empties == {i \in 2..(n - 1) : parts[i] = <<>>}
        skip == CHOOSE i \in empties : TRUE
        hi == IF parts[1] = <<>> THEN skip - 2 ELSE skip - 1
        lo == IF parts[n] = <<>> THEN n - skip - 1 ELSE n - skip
    IN  IF Len(s) = 0 \/ n < 3 \/ n > 9 \/ Cardinality(empties) > 1 THEN <<>>
        ELSE IF empties = {}
        THEN IF n = 8 /\ \A k \in 1..8 : HextetOk(parts[k])
             THEN [k \in 1..8 |-> IntOf(parts[k], 16)]
             ELSE <<>>
        ELSE IF (parts[1] = <<>> /\ hi # 0) \/ (parts[n] = <<>> /\ lo # 0)
        THEN <<>>
        ELSE IF 8 - (hi + lo) < 1 THEN <<>>
        ELSE IF \E k \in (1..hi) \cup ((n - lo + 1)..n) : ~HextetOk(parts[k])
        THEN <<>>
        ELSE [k \in 1..8 |->
                 IF k <= hi THEN IntOf(parts[k], 16)
                 ELSE IF k > 8 - lo THEN IntOf(parts[n - (8 - k)], 16)
                 ELSE 0]

ParseIPv6Network(s) ==
    LET addr == Split(s, "/")
        hexs == IPv6Hextets(addr[1])
        p == IF Len(addr) = 2 THEN PrefixFromPrefixString(addr[2], 128) ELSE 128
    IN  IF Len(addr) > 2 THEN NoNetwork
        ELSE IF hexs = <<>> THEN NoNetwork
        ELSE IF p < 0 THEN NoNetwork
        ELSE IF ~HostBitsZero(hexs, 16, p) THEN NoNetwork
        ELSE [version |-> 6, groups |-> hexs, prefixlen |-> p]

(***************************************************************************)
(* ip_subnet values the runs are given.                                    *)
(***************************************************************************)
\* "192.168.1.0/24", the default
SubnetDefault ==
    <<"1", "9", "2", ".", "1", "6", "8", ".", "1", ".", "0", "/", "2", "4">>
\* "10.0.0.1": a host address, no mask
SubnetHost == <<"1", "0", ".", "0", ".", "0", ".", "1">>
\* "10.0.0.1/8": host bits set
SubnetHostBits == <<"1", "0", ".", "0", ".", "0", ".", "1", "/", "8">>
\* "fd00::/8"
SubnetV6 == <<"f", "d", "0", "0", ":", ":", "/", "8">>
\* "fd00::1/8": IPv6 with host bits set
SubnetV6HostBits == <<"f", "d", "0", "0", ":", ":", "1", "/", "8">>
\* "lan"
SubnetWord == <<"l", "a", "n">>
\* ""
SubnetEmpty == <<>>

SubnetInputs ==
    {SubnetDefault, SubnetHost, SubnetHostBits, SubnetV6, SubnetV6HostBits,
     SubnetWord, SubnetEmpty}

(***************************************************************************)
(* The parameters a run is bound to (lines 39-88).                         *)
(***************************************************************************)
\* The defaults of defineParameter.
DefaultParams ==
    [nodes |-> <<>>,
     cluster |-> "",
     toolVersion |-> toolVersion[1],
     osImage |-> imageList[1],
     tempFileSystemSize |-> 0,
     tempFileSystemMax |-> FALSE,
     tempFileSystemMount |-> "/mydata",
     vlan1 |-> 3110,
     vlan2 |-> 3111,
     ip_subnet |-> SubnetDefault,
     node_count |-> NODE_MIN]

NodeCountInputs == 0..(NODE_MAX + MaxCountOver)
VlanInputs == {VLAN_MIN - 1, VLAN_MIN, VLAN_MAX, VLAN_MAX + 1}
ClusterInputs == {clusters[1], clusters[2], CLEMSON_CM}
\* Every string of at most MaxNodesLen characters over a, b and the comma.
NodesInputs == UNION {[1..k -> {"a", "b", ","}] : k \in 0..MaxNodesLen}

\* Runs that vary what the parameter checks read, with one host "a".
ValidationParams ==
    {[DefaultParams EXCEPT !.nodes = <<"a">>, !.node_count = n, !.osImage = o,
                           !.toolVersion = t, !.vlan1 = v1, !.vlan2 = v2,
                           !.ip_subnet = s] :
        n \in NodeCountInputs, o \in {imageList[1], CENTOS8},
        t \in {toolVersion[1], "2020.1"}, v1 \in VlanInputs, v2 \in VlanInputs,
        s \in SubnetInputs}

\* Runs that vary the host list, node_count and the family of the subnet.
AssemblyParams ==
    {[DefaultParams EXCEPT !.nodes = l, !.node_count = n, !.ip_subnet = s] :
        l \in NodesInputs, n \in NodeCountInputs, s \in {SubnetDefault, SubnetV6}}

\* Runs that vary the storage, image, tool and cluster parameters.
StorageParams ==
    {[DefaultParams EXCEPT !.nodes = l, !.node_count = Len(Split(l, ",")),
                           !.tempFileSystemSize = z, !.tempFileSystemMax = m,
                           !.tempFileSystemMount = d, !.cluster = c,
                           !.toolVersion = t, !.osImage = o] :
        l \in {<<"a">>, <<"a", ",", "b">>}, z \in (-1)..MaxTempSize,
        m \in BOOLEAN, d \in {"/mydata", "/scratch"}, c \in ClusterInputs,
        t \in {toolVersion[1], toolVersion[2]}, o \in {imageList[1], imageList[2]}}

ParamSpace == ValidationParams \cup AssemblyParams \cup StorageParams

(***************************************************************************)
(* State of a run.                                                         *)
(***************************************************************************)
VARIABLES
    params,            \* the bound parameters
    pc,                \* position of the run in the script
    errors,            \* ParameterErrors reported to the portal context
    calls,             \* library calls the claims observe, in order
    exc,               \* the uncaught exception that ended the run, or "none"
    subnet,            \* the parsed network, NoNetwork before the parse
    lan1, lan2, lan,   \* the link variables, Unbound until assigned
    interfaces_vlan1,  \* list of interfaces for VLAN 1
    interfaces_vlan2,  \* list of interfaces for VLAN 2
    nodeList,          \* params.nodes.split(',')
    idx,               \* the index counter of the host loop
    hosts,             \* the RawPC nodes of the hosts, in creation order
    fpgas,             \* the RawPC nodes of the FPGAs, in creation order
    fabric             \* the stitch node, NoFabric before it is created

vars ==
    <<params, pc, errors, calls, exc, subnet, lan1, lan2, lan,
      interfaces_vlan1, interfaces_vlan2, nodeList, idx, hosts, fpgas, fabric>>

\* A Python name that has not been assigned: reading it raises NameError.
Unbound ==
    [kind |-> "unbound", client_id |-> "", type |-> "", vlan_tag |-> 0,
     interfaces |-> <<>>, link_multiplexing |-> FALSE, best_effort |-> FALSE]

\* pg.Link(name, ltype) and pg.LAN() as the request holds them when created.
NewLink(kind, name, ltype) ==
    [kind |-> kind, client_id |-> name, type |-> ltype, vlan_tag |-> 0,
     interfaces |-> <<>>, link_multiplexing |-> FALSE, best_effort |-> FALSE]

NoBlockstore ==
    [present |-> FALSE, name |-> <<>>, mount |-> "", size |-> <<>>,
     placement |-> ""]

NoFabric ==
    [present |-> FALSE, client_id |-> <<>>, type |-> "", site |-> "",
     component_id |-> "", component_manager_id |-> "", exclusive |-> TRUE,
     interfaces |-> <<>>]

ErrNodeCount == "Node count must be between 1 and 4 inclusive"
ErrOsTool == "OS and tool version mismatch."
ErrVlan == "VLAN ID must be in the range 3110-3119"

Net1 == <<"1", "9", "2", ".", "1", "6", "8", ".", "1", ".">>
Net2 == <<"1", "9", "2", ".", "1", "6", "8", ".", "2", ".">>
FpgaPrefix == <<"f", "p", "g", "a", "-">>
StitchName == <<"s", "t", "i", "t", "c", "h", "-", "n", "o", "d", "e">>
\* First host octet of the FPGA interfaces and of the stitch interfaces.
FpgaBase == 10
StitchBase == 50

Init ==
    /\ params \in ParamSpace
    /\ pc = "check_node_count"
    /\ errors = <<>>
    /\ calls = <<>>
    /\ exc = "none"
    /\ subnet = NoNetwork
    /\ lan1 = Unbound
    /\ lan2 = Unbound
    /\ lan = Unbound
    /\ interfaces_vlan1 = <<>>
    /\ interfaces_vlan2 = <<>>
    /\ nodeList = <<>>
    /\ idx = 0
    /\ hosts = <<>>
    /\ fpgas = <<>>
    /\ fabric = NoFabric

(***************************************************************************)
(* Parameter checks (lines 90-113).  reportError appends to the context's  *)
(* error list and returns; verifyParameters exits when the list is not     *)
(* empty.                                                                  *)
(***************************************************************************)
\* Mutant: the upper bound of the range is not checked.
NodeCountInvalid_LowerOnly(n) == n < NODE_MIN

NodeCountInvalid(n) == n < NODE_MIN \/ n > NODE_MAX

OsToolMismatch(o, t) == o = CENTOS8 /\ t = "2020.1"

VlanInvalid(v) == v < VLAN_MIN \/ v > VLAN_MAX

CheckNodeCount ==
    /\ pc = "check_node_count"
    /\ errors' = IF NodeCountInvalid(params.node_count)
                 THEN Append(errors, ErrNodeCount) ELSE errors
    /\ pc' = "check_os_tool"
    /\ UNCHANGED <<params, calls, exc, subnet, lan1, lan2, lan, interfaces_vlan1,
                   interfaces_vlan2, nodeList, idx, hosts, fpgas, fabric>>

CheckOsTool ==
    /\ pc = "check_os_tool"
    /\ errors' = IF OsToolMismatch(params.osImage, params.toolVersion)
                 THEN Append(errors, ErrOsTool) ELSE errors
    /\ pc' = "check_vlan1"
    /\ UNCHANGED <<params, calls, exc, subnet, lan1, lan2, lan, interfaces_vlan1,
                   interfaces_vlan2, nodeList, idx, hosts, fpgas, fabric>>

CheckVlan1 ==
    /\ pc = "check_vlan1"
    /\ errors' = IF VlanInvalid(params.vlan1)
                 THEN Append(errors, ErrVlan) ELSE errors
    /\ pc' = "check_vlan2"
    /\ UNCHANGED <<params, calls, exc, subnet, lan1, lan2, lan, interfaces_vlan1,
                   interfaces_vlan2, nodeList, idx, hosts, fpgas, fabric>>

\* Mutant: the vlan2 check is skipped once an error has been reported.
CheckVlan2_ShortCircuit ==
    /\ pc = "check_vlan2"
    /\ errors' = IF Len(errors) = 0 /\ VlanInvalid(params.vlan2)
                 THEN Append(errors, ErrVlan) ELSE errors
    /\ pc' = "parse_subnet"
    /\ UNCHANGED <<params, calls, exc, subnet, lan1, lan2, lan, interfaces_vlan1,
                   interfaces_vlan2, nodeList, idx, hosts, fpgas, fabric>>

CheckVlan2 ==
    /\ pc = "check_vlan2"
    /\ errors' = IF VlanInvalid(params.vlan2)
                 THEN Append(errors, ErrVlan) ELSE errors
    /\ pc' = "parse_subnet"
    /\ UNCHANGED <<params, calls, exc, subnet, lan1, lan2, lan, interfaces_vlan1,
                   interfaces_vlan2, nodeList, idx, hosts, fpgas, fabric>>

\* The constructors the try/except of lines 105-111 calls, in order.
SubnetAttempts(s) ==
    IF ParseIPv4Network(s) # NoNetwork THEN <<"IPv4Network">>
    ELSE <<"IPv4Network", "IPv6Network">>

\* Mutant: no IPv6 fallback.
SubnetOf_IPv4Only(s) == ParseIPv4Network(s)

\* The network lines 105-111 bind to subnet; NoNetwork when line 111 re-raises.
SubnetOf(s) ==
    IF ParseIPv4Network(s) # NoNetwork THEN ParseIPv4Network(s)
    ELSE ParseIPv6Network(s)

ParseSubnet ==
    /\ pc = "parse_subnet"
    /\ calls' = calls \o SubnetAttempts(params.ip_subnet)
    /\ subnet' = SubnetOf(params.ip_subnet)
    /\ exc' = IF SubnetOf(params.ip_subnet) = NoNetwork THEN "ValueError" ELSE exc
    /\ pc' = IF SubnetOf(params.ip_subnet) = NoNetwork THEN "exit" ELSE "verify"
    /\ UNCHANGED <<params, errors, lan1, lan2, lan, interfaces_vlan1,
                   interfaces_vlan2, nodeList, idx, hosts, fpgas, fabric>>

VerifyParameters ==
    /\ pc = "verify"
    /\ calls' = Append(calls, "verifyParameters")
    /\ exc' = IF Len(errors) > 0 THEN "SystemExit" ELSE exc
    /\ pc' = IF Len(errors) > 0 THEN "exit" ELSE "make_lan"
    /\ UNCHANGED <<params, errors, subnet, lan1, lan2, lan, interfaces_vlan1,
                   interfaces_vlan2, nodeList, idx, hosts, fpgas, fabric>>

(***************************************************************************)
(* Links and lists (lines 115-130).                                        *)
(***************************************************************************)
\* Line 116: two point-to-point links instead of one LAN.
UsesLinks(n) == n = 1

MakeLan ==
    /\ pc = "make_lan"
    /\ lan1' = IF UsesLinks(params.node_count)
               THEN NewLink("Link", "link", "vlan1") ELSE lan1
    /\ lan2' = IF UsesLinks(params.node_count)
               THEN NewLink("Link", "link", "vlan2") ELSE lan2
    /\ lan' = IF UsesLinks(params.node_count)
              THEN lan ELSE NewLink("LAN", "<generated>", "lan")
    /\ pc' = "init_lists"
    /\ UNCHANGED <<params, errors, calls, exc, subnet, interfaces_vlan1,
                   interfaces_vlan2, nodeList, idx, hosts, fpgas, fabric>>

\* Lines 122-130.  addrs = subnet.hosts() is never read again.
InitLists ==
    /\ pc = "init_lists"
    /\ interfaces_vlan1' = <<>>
    /\ interfaces_vlan2' = <<>>
    /\ nodeList' = Split(params.nodes, ",")
    /\ idx' = 0
    /\ pc' = "for_name"
    /\ UNCHANGED <<params, errors, calls, exc, subnet, lan1, lan2, lan, hosts,
                   fpgas, fabric>>

(***************************************************************************)
(* The host loop (lines 131-187).  The for statement walks nodeList; the   *)
(* names taken so far are as many as the hosts created.                    *)
(***************************************************************************)
\* Mutant: the loop stops after node_count names.
ForName_ByNodeCount ==
    /\ pc = "for_name"
    /\ hosts' = IF Len(hosts) < Len(nodeList) /\ Len(hosts) < params.node_count
                THEN Append(hosts,
                        [client_id |-> nodeList[Len(hosts) + 1],
                         component_manager_id |-> UMASS_CM,
                         component_id |-> nodeList[Len(hosts) + 1],
                         disk_image |-> params.osImage,
                         blockstore |-> NoBlockstore,
                         services |-> <<>>])
                ELSE hosts
    /\ pc' = IF Len(hosts) < Len(nodeList) /\ Len(hosts) < params.node_count
             THEN "blockstore" ELSE "fabric"
    /\ UNCHANGED <<params, errors, calls, exc, subnet, lan1, lan2, lan,
                   interfaces_vlan1, interfaces_vlan2, nodeList, idx, fpgas,
                   fabric>>

\* Lines 131-138: the next name of nodeList, if any, gets its RawPC.
ForName ==
    /\ pc = "for_name"
    /\ hosts' = IF Len(hosts) < Len(nodeList)
                THEN Append(hosts,
                        [client_id |-> nodeList[Len(hosts) + 1],
                         component_manager_id |-> UMASS_CM,
                         component_id |-> nodeList[Len(hosts) + 1],
                         disk_image |-> params.osImage,
                         blockstore |-> NoBlockstore,
                         services |-> <<>>])
                ELSE hosts
    /\ pc' = IF Len(hosts) < Len(nodeList) THEN "blockstore" ELSE "fabric"
    /\ UNCHANGED <<params, errors, calls, exc, subnet, lan1, lan2, lan,
                   interfaces_vlan1, interfaces_vlan2, nodeList, idx, fpgas,
                   fabric>>

\* Line 141.
WantsBlockstore(size, max) == size > 0 \/ max

\* Mutant: a positive size wins over tempFileSystemMax.
BlockstoreSize_SizeFirst(size, max) ==
    IF size > 0 THEN Str(size) \o <<"G", "B">> ELSE <<"0", "G", "B">>

\* Lines 143-146.
BlockstoreSize(size, max) ==
    IF max THEN <<"0", "G", "B">> ELSE Str(size) \o <<"G", "B">>

\* Lines 140-149, on the node of this iteration.
Blockstore ==
    /\ pc = "blockstore"
    /\ hosts' =
         IF WantsBlockstore(params.tempFileSystemSize, params.tempFileSystemMax)
         THEN [hosts EXCEPT ![Len(hosts)].blockstore =
                  [present |-> TRUE,
                   name |-> hosts[Len(hosts)].client_id \o <<"-", "b", "s">>,
                   mount |-> params.tempFileSystemMount,
                   size |-> BlockstoreSize(params.tempFileSystemSize,
                                           params.tempFileSystemMax),
                   placement |-> "any"]]
         ELSE hosts
    /\ pc' = "add_service"
    /\ UNCHANGED <<params, errors, calls, exc, subnet, lan1, lan2, lan,
                   interfaces_vlan1, interfaces_vlan2, nodeList, idx, fpgas,
                   fabric>>

\* Line 151.
AddService ==
    /\ pc = "add_service"
    /\ hosts' = [hosts EXCEPT ![Len(hosts)].services =
                    Append(@, [shell |-> "bash",
                               command |-> <<"sudo /local/repository/post-boot.sh ",
                                             params.toolVersion,
                                             " >> /local/repository/output_log.txt">>])]
    /\ pc' = "fpga"
    /\ UNCHANGED <<params, errors, calls, exc, subnet, lan1, lan2, lan,
                   interfaces_vlan1, interfaces_vlan2, nodeList, idx, fpgas,
                   fabric>>

\* Lines 154-163: the FPGA of the node of this iteration.
CreateFpga ==
    /\ pc = "fpga"
    /\ fpgas' = Append(fpgas,
                   [client_id |-> FpgaPrefix \o hosts[Len(hosts)].client_id,
                    component_manager_id |-> UMASS_CM,
                    component_id |-> FpgaPrefix \o hosts[Len(hosts)].client_id,
                    use_type_default_image |-> TRUE,
                    subnode_of |-> Len(hosts),
                    interfaces |-> <<>>])
    /\ pc' = "iface1"
    /\ UNCHANGED <<params, errors, calls, exc, subnet, lan1, lan2, lan,
                   interfaces_vlan1, interfaces_vlan2, nodeList, idx, hosts,
                   fabric>>

\* Node.addInterface(): the generated name is the first free client_id:ifN.
GeneratedIfName(node) == node.client_id \o <<":", "i", "f">> \o Str(Len(node.interfaces))

\* Mutant: the index is left out of the address.
FpgaAddress_NoIndex(net, i) == net \o Str(FpgaBase)

\* The strings of lines 174 and 177.
FpgaAddress(net, i) == net \o Str(i + FpgaBase)

\* The strings of lines 207 and 208.
StitchAddress(net, i) == net \o Str(i + StitchBase)

\* An interface of owner (the FPGA's position in fpgas, 0 for the stitch node).
NewInterface(owner, name, cid, address) ==
    [owner |-> owner, name |-> name, component_id |-> cid,
     addresses |-> <<[address |-> address, netmask |-> "255.255.255.0"]>>]

\* Lines 172-174.
AddIface1 ==
    /\ pc = "iface1"
    /\ fpgas' = [fpgas EXCEPT ![Len(fpgas)].interfaces =
                    Append(@, NewInterface(Len(fpgas),
                                           GeneratedIfName(fpgas[Len(fpgas)]),
                                           "eth0", FpgaAddress(Net1, idx)))]
    /\ pc' = "iface2"
    /\ UNCHANGED <<params, errors, calls, exc, subnet, lan1, lan2, lan,
                   interfaces_vlan1, interfaces_vlan2, nodeList, idx, hosts,
                   fabric>>

\* Lines 175-177.
AddIface2 ==
    /\ pc = "iface2"
    /\ fpgas' = [fpgas EXCEPT ![Len(fpgas)].interfaces =
                    Append(@, NewInterface(Len(fpgas),
                                           GeneratedIfName(fpgas[Len(fpgas)]),
                                           "eth1", FpgaAddress(Net2, idx)))]
    /\ pc' = "append1"
    /\ UNCHANGED <<params, errors, calls, exc, subnet, lan1, lan2, lan,
                   interfaces_vlan1, interfaces_vlan2, nodeList, idx, hosts,
                   fabric>>

\* The Python variables iface1 and iface2 of the current iteration.
iface1 == fpgas[Len(fpgas)].interfaces[1]
iface2 == fpgas[Len(fpgas)].interfaces[2]

\* Line 179.
AppendIface1 ==
    /\ pc = "append1"
    /\ interfaces_vlan1' = Append(interfaces_vlan1, iface1)
    /\ pc' = "append2"
    /\ UNCHANGED <<params, errors, calls, exc, subnet, lan1, lan2, lan,
                   interfaces_vlan2, nodeList, idx, hosts, fpgas, fabric>>

\* Mutant: the second interface goes to the VLAN-1 list.
AppendIface2_WrongList ==
    /\ pc = "append2"
    /\ interfaces_vlan1' = Append(interfaces_vlan1, iface2)
    /\ pc' = "incr_idx"
    /\ UNCHANGED <<params, errors, calls, exc, subnet, lan1, lan2, lan,
                   interfaces_vlan2, nodeList, idx, hosts, fpgas, fabric>>

\* Line 180.
AppendIface2 ==
    /\ pc = "append2"
    /\ interfaces_vlan2' = Append(interfaces_vlan2, iface2)
    /\ pc' = "incr_idx"
    /\ UNCHANGED <<params, errors, calls, exc, subnet, lan1, lan2, lan,
                   interfaces_vlan1, nodeList, idx, hosts, fpgas, fabric>>

\* Line 187.
IncrIdx ==
    /\ pc = "incr_idx"
    /\ idx' = idx + 1
    /\ pc' = "for_name"
    /\ UNCHANGED <<params, errors, calls, exc, subnet, lan1, lan2, lan,
                   interfaces_vlan1, interfaces_vlan2, nodeList, hosts, fpgas,
                   fabric>>

(***************************************************************************)
(* The stitch node (lines 191-210).                                        *)
(***************************************************************************)
\* Lines 198-202.
FabricManager(cluster) ==
    IF cluster = UMASS_CM \/ cluster = CLEMSON_CM THEN cluster ELSE UMASS_CM

\* Lines 192-203.
CreateFabric ==
    /\ pc = "fabric"
    /\ fabric' = [present |-> TRUE,
                  client_id |-> StitchName,
                  type |-> "emulab-connect",
                  site |-> "stitch",
                  component_id |-> "interconnect-fabric",
                  component_manager_id |-> FabricManager(params.cluster),
                  exclusive |-> FALSE,
                  interfaces |-> <<>>]
    /\ pc' = "stitch_ifaces"
    /\ UNCHANGED <<params, errors, calls, exc, subnet, lan1, lan2, lan,
                   interfaces_vlan1, interfaces_vlan2, nodeList, idx, hosts,
                   fpgas>>

\* Lines 204-208.
AddStitchIfaces ==
    /\ pc = "stitch_ifaces"
    /\ fabric' = [fabric EXCEPT !.interfaces =
                     <<NewInterface(0, fabric.client_id \o <<":", "i", "f", "0">>,
                                    "", StitchAddress(Net1, idx)),
                       NewInterface(0, fabric.client_id \o <<":", "i", "f", "1">>,
                                    "", StitchAddress(Net2, idx))>>]
    /\ pc' = "stitch_append1"
    /\ UNCHANGED <<params, errors, calls, exc, subnet, lan1, lan2, lan,
                   interfaces_vlan1, interfaces_vlan2, nodeList, idx, hosts,
                   fpgas>>

\* The Python variables siface1 and siface2.
siface1 == fabric.interfaces[1]
siface2 == fabric.interfaces[2]

\* Line 209.
AppendStitch1 ==
    /\ pc = "stitch_append1"
    /\ interfaces_vlan1' = Append(interfaces_vlan1, siface1)
    /\ pc' = "stitch_append2"
    /\ UNCHANGED <<params, errors, calls, exc, subnet, lan1, lan2, lan,
                   interfaces_vlan2, nodeList, idx, hosts, fpgas, fabric>>

\* Line 210.
AppendStitch2 ==
    /\ pc = "stitch_append2"
    /\ interfaces_vlan2' = Append(interfaces_vlan2, siface2)
    /\ pc' = "set_tags"
    /\ UNCHANGED <<params, errors, calls, exc, subnet, lan1, lan2, lan,
                   interfaces_vlan1, nodeList, idx, hosts, fpgas, fabric>>

(***************************************************************************)
(* Tags, members, flags and the print (lines 212-230).  Reading a name     *)
(* that line 116-120 did not assign raises NameError and ends the run.     *)
(***************************************************************************)
IsBound(v) == v.kind # "unbound"

\* Lines 213-214.
SetVlanTags ==
    /\ pc = "set_tags"
    /\ lan1' = IF IsBound(lan1) THEN [lan1 EXCEPT !.vlan_tag = params.vlan1]
               ELSE lan1
    /\ lan2' = IF IsBound(lan1) /\ IsBound(lan2)
               THEN [lan2 EXCEPT !.vlan_tag = params.vlan2] ELSE lan2
    /\ exc' = IF IsBound(lan1) /\ IsBound(lan2) THEN exc ELSE "NameError"
    /\ pc' = IF IsBound(lan1) /\ IsBound(lan2) THEN "add_ifaces1" ELSE "exit"
    /\ UNCHANGED <<params, errors, calls, subnet, lan, interfaces_vlan1,
                   interfaces_vlan2, nodeList, idx, hosts, fpgas, fabric>>

\* Lines 216-217: Link.addInterface appends each interface of the list.
AddInterfaces1 ==
    /\ pc = "add_ifaces1"
    /\ lan1' = IF IsBound(lan1)
               THEN [lan1 EXCEPT !.interfaces = @ \o interfaces_vlan1] ELSE lan1
    /\ exc' = IF IsBound(lan1) THEN exc ELSE "NameError"
    /\ pc' = IF IsBound(lan1) THEN "add_ifaces2" ELSE "exit"
    /\ UNCHANGED <<params, errors, calls, subnet, lan2, lan, interfaces_vlan1,
                   interfaces_vlan2, nodeList, idx, hosts, fpgas, fabric>>

\* Mutant: the second link is given the VLAN-1 list.
AddInterfaces2_WrongList ==
    /\ pc = "add_ifaces2"
    /\ lan2' = IF IsBound(lan2)
               THEN [lan2 EXCEPT !.interfaces = @ \o interfaces_vlan1] ELSE lan2
    /\ exc' = IF IsBound(lan2) THEN exc ELSE "NameError"
    /\ pc' = IF IsBound(lan2) THEN "finish" ELSE "exit"
    /\ UNCHANGED <<params, errors, calls, subnet, lan1, lan, interfaces_vlan1,
                   interfaces_vlan2, nodeList, idx, hosts, fpgas, fabric>>

\* Lines 219-220.
AddInterfaces2 ==
    /\ pc = "add_ifaces2"
    /\ lan2' = IF IsBound(lan2)
               THEN [lan2 EXCEPT !.interfaces = @ \o interfaces_vlan2] ELSE lan2
    /\ exc' = IF IsBound(lan2) THEN exc ELSE "NameError"
    /\ pc' = IF IsBound(lan2) THEN "finish" ELSE "exit"
    /\ UNCHANGED <<params, errors, calls, subnet, lan1, lan, interfaces_vlan1,
                   interfaces_vlan2, nodeList, idx, hosts, fpgas, fabric>>

\* Lines 222-230: the flags of lan, then the print of the request.
Finish ==
    /\ pc = "finish"
    /\ lan' = IF IsBound(lan)
              THEN [lan EXCEPT !.link_multiplexing = TRUE, !.best_effort = TRUE]
              ELSE lan
    /\ calls' = IF IsBound(lan) THEN Append(calls, "printRequestRSpec") ELSE calls
    /\ exc' = IF IsBound(lan) THEN exc ELSE "NameError"
    /\ pc' = "exit"
    /\ UNCHANGED <<params, errors, subnet, lan1, lan2, interfaces_vlan1,
                   interfaces_vlan2, nodeList, idx, hosts, fpgas, fabric>>

Next ==
    \/ CheckNodeCount
    \/ CheckOsTool
    \/ CheckVlan1
    \/ CheckVlan2
    \/ ParseSubnet
    \/ VerifyParameters
    \/ MakeLan
    \/ InitLists
    \/ ForName
    \/ Blockstore
    \/ AddService
    \/ CreateFpga
    \/ AddIface1
    \/ AddIface2
    \/ AppendIface1
    \/ AppendIface2
    \/ IncrIdx
    \/ CreateFabric
    \/ AddStitchIfaces
    \/ AppendStitch1
    \/ AppendStitch2
    \/ SetVlanTags
    \/ AddInterfaces1
    \/ AddInterfaces2
    \/ Finish

Spec == Init /\ [][Next]_vars

(***************************************************************************)
(* Vocabulary of the properties, stated on the parameters and the state    *)
(* without the operators of the script.                                    *)
(***************************************************************************)
NodeCountInRange == params.node_count \in 1..4
Vlan1InRange == params.vlan1 \in 3110..3119
Vlan2InRange == params.vlan2 \in 3110..3119
ForbiddenPair == params.osImage = CENTOS8 /\ params.toolVersion = "2020.1"
SubnetParses ==
    \/ ParseIPv4Network(params.ip_subnet) # NoNetwork
    \/ ParseIPv6Network(params.ip_subnet) # NoNetwork

\* The validated-parameter domain.
Validated ==
    /\ NodeCountInRange
    /\ Vlan1InRange
    /\ Vlan2InRange
    /\ ~ForbiddenPair
    /\ SubnetParses

\* Number of host names: one more than the commas of the nodes string.
HostCount == 1 + Cardinality({i \in 1..Len(params.nodes) : params.nodes[i] = ","})

PrintCount == Cardinality({i \in 1..Len(calls) : calls[i] = "printRequestRSpec"})
VerifyCount == Cardinality({i \in 1..Len(calls) : calls[i] = "verifyParameters"})

\* No resource object of the request exists.
NothingCreated ==
    /\ hosts = <<>>
    /\ fpgas = <<>>
    /\ ~fabric.present
    /\ lan1.kind = "unbound"
    /\ lan2.kind = "unbound"
    /\ lan.kind = "unbound"

BeforeParse ==
    pc \in {"check_node_count", "check_os_tool", "check_vlan1", "check_vlan2",
            "parse_subnet"}

\* The run is past line 210: the stitch interfaces are in the lists.
StitchDone ==
    \/ pc \in {"set_tags", "add_ifaces1", "add_ifaces2", "finish"}
    \/ pc = "exit" /\ exc = "NameError"

\* The host loop is over.
LoopDone == pc \in {"fabric", "stitch_ifaces", "stitch_append1", "stitch_append2"} \/ StitchDone

\* The decimal numeral of n in 10..99.
TwoDigits(n) == <<DecDigits[(n \div 10) + 1], DecDigits[(n % 10) + 1]>>

(***************************************************************************)
(* C1.  Stated as in the specification: every run on validated parameters  *)
(* ends without an exception, having called printRequestRSpec exactly      *)
(* once.  The script violates it: it ends with NameError at line 213 or    *)
(* at line 224.                                                            *)
(***************************************************************************)
C1_AssemblyIsTotal ==
    (pc = "exit" /\ Validated) => (exc = "none" /\ PrintCount = 1)

(***************************************************************************)
(* C2 as stated: with node_count outside 1..4 the node-count error is      *)
(* reported and the run stops at verifyParameters with nothing created     *)
(* and nothing printed, whatever the other parameters are.                 *)
(***************************************************************************)
C2_StopsAtVerify ==
    (pc = "exit" /\ ~NodeCountInRange) =>
        /\ \E i \in 1..Len(errors) : errors[i] = ErrNodeCount
        /\ exc = "SystemExit"
        /\ VerifyCount = 1
        /\ NothingCreated
        /\ PrintCount = 0

(***************************************************************************)
(* C2 amended: with node_count outside 1..4 the node-count error is        *)
(* reported, nothing is ever created or printed, and the run stops at      *)
(* verifyParameters when ip_subnet parses and at the subnet parse, before  *)
(* verifyParameters, when it does not.                                     *)
(***************************************************************************)
C2_StopsAtVerifyOrParse ==
    ~NodeCountInRange =>
        /\ pc # "check_node_count" =>
              Cardinality({i \in 1..Len(errors) : errors[i] = ErrNodeCount}) = 1
        /\ NothingCreated
        /\ PrintCount = 0
        /\ BeforeParse \/ pc \in {"verify", "exit"}
        /\ (pc = "exit" /\ SubnetParses) => (exc = "SystemExit" /\ VerifyCount = 1)
        /\ (pc = "exit" /\ ~SubnetParses) => (exc = "ValueError" /\ VerifyCount = 0)

C2_Witness ==
    /\ pc = "exit"
    /\ params.node_count > 4
    /\ exc = "SystemExit"
    /\ errors = <<ErrNodeCount>>

(***************************************************************************)
(* C3.  The four checks do not short-circuit: once they have run, the      *)
(* reported errors are exactly those of the violated conditions, one       *)
(* each, in the order of the checks, and a run with at least one reported  *)
(* error creates and prints nothing.                                       *)
(***************************************************************************)
C3_ExpectedErrors ==
    (IF NodeCountInRange THEN <<>> ELSE <<ErrNodeCount>>)
    \o (IF ForbiddenPair THEN <<ErrOsTool>> ELSE <<>>)
    \o (IF Vlan1InRange THEN <<>> ELSE <<ErrVlan>>)
    \o (IF Vlan2InRange THEN <<>> ELSE <<ErrVlan>>)

C3_ChecksAccumulate ==
    /\ pc \notin {"check_node_count", "check_os_tool", "check_vlan1", "check_vlan2"}
          => errors = C3_ExpectedErrors
    /\ Len(errors) >= 1 => (NothingCreated /\ PrintCount = 0)

C3_Witness ==
    /\ pc = "exit"
    /\ exc = "SystemExit"
    /\ NodeCountInRange
    /\ ~ForbiddenPair
    /\ errors = <<ErrVlan, ErrVlan>>

(***************************************************************************)
(* C4.  ip_subnet is parsed as IPv4 first and as IPv6 only when that       *)
(* fails.  When both fail the run ends at once with the parse exception:   *)
(* the error list holds only what the four checks reported,                *)
(* verifyParameters is never called and nothing is created or printed.    *)
(* When one parse succeeds the run goes on to verifyParameters.  The       *)
(* sample strings parse as the ipaddress module parses them.               *)
(***************************************************************************)
C4_SubnetParseIsFatal ==
    ~BeforeParse =>
        /\ calls[1] = "IPv4Network"
        /\ ParseIPv4Network(params.ip_subnet) # NoNetwork =>
              /\ subnet.version = 4
              /\ \A i \in 1..Len(calls) : calls[i] # "IPv6Network"
        /\ ParseIPv4Network(params.ip_subnet) = NoNetwork =>
              /\ Len(calls) >= 2
              /\ calls[2] = "IPv6Network"
        /\ SubnetParses =>
              /\ subnet.version \in {4, 6}
              /\ pc = "verify" \/ VerifyCount = 1
              /\ exc # "ValueError"
        /\ ~SubnetParses =>
              /\ pc = "exit"
              /\ exc = "ValueError"
              /\ errors = C3_ExpectedErrors
              /\ VerifyCount = 0
              /\ NothingCreated
              /\ PrintCount = 0
        /\ params.ip_subnet = SubnetDefault =>
              subnet = [version |-> 4, groups |-> <<192, 168, 1, 0>>, prefixlen |-> 24]
        /\ params.ip_subnet = SubnetHost => subnet.version = 4 /\ subnet.prefixlen = 32
        /\ params.ip_subnet = SubnetV6 => subnet.version = 6 /\ subnet.prefixlen = 8
        /\ params.ip_subnet \in {SubnetHostBits, SubnetV6HostBits, SubnetWord, SubnetEmpty}
              => exc = "ValueError"

C4_Witness ==
    /\ pc = "exit"
    /\ exc = "ValueError"
    /\ calls = <<"IPv4Network", "IPv6Network">>
    /\ Len(errors) >= 2

(***************************************************************************)
(* C5.  Stated as in the specification: a run on validated parameters      *)
(* with N >= 2 host names and node_count = N ends with N Nodes, N          *)
(* SubNodes "fpga-"+name each a sub-resource of its Node, one StitchNode,  *)
(* and two LAN groups of N+1 members tagged vlan1 and vlan2, both with     *)
(* link multiplexing and best effort set.  The script violates it: lan1    *)
(* and lan2 are not assigned when node_count is not 1 (line 213).          *)
(***************************************************************************)
C5_TwoTaggedLanGroups ==
    (pc = "exit" /\ Validated /\ HostCount >= 2 /\ params.node_count = HostCount) =>
        /\ Len(hosts) = HostCount
        /\ Len(fpgas) = HostCount
        /\ \A i \in 1..Len(fpgas) :
              /\ fpgas[i].client_id = FpgaPrefix \o hosts[i].client_id
              /\ fpgas[i].subnode_of = i
        /\ fabric.present
        /\ lan1.kind = "LAN"
        /\ lan2.kind = "LAN"
        /\ Len(lan1.interfaces) = HostCount + 1
        /\ Len(lan2.interfaces) = HostCount + 1
        /\ lan1.vlan_tag = params.vlan1
        /\ lan2.vlan_tag = params.vlan2
        /\ lan1.link_multiplexing /\ lan1.best_effort
        /\ lan2.link_multiplexing /\ lan2.best_effort

(***************************************************************************)
(* C6.  On validated parameters with node_count = 1 and one host name,     *)
(* two Links and no LAN are created, the first is tagged vlan1 and the     *)
(* second vlan2, the stitch node is created and its interfaces are the     *)
(* last of the two lists, and each link ends with exactly two members:     *)
(* the interface of the host's SubNode and the stitch interface.           *)
(***************************************************************************)
C6_SingleHostLinks ==
    (Validated /\ params.node_count = 1 /\ HostCount = 1) =>
        /\ (~BeforeParse /\ pc \notin {"verify", "make_lan"}) =>
              /\ lan1.kind = "Link"
              /\ lan2.kind = "Link"
              /\ lan.kind = "unbound"
        /\ StitchDone =>
              /\ fabric.present
              /\ interfaces_vlan1[Len(interfaces_vlan1)] = fabric.interfaces[1]
              /\ interfaces_vlan2[Len(interfaces_vlan2)] = fabric.interfaces[2]
        /\ pc \in {"add_ifaces1", "add_ifaces2", "finish", "exit"} =>
              /\ lan1.vlan_tag = params.vlan1
              /\ lan2.vlan_tag = params.vlan2
        /\ pc \in {"finish", "exit"} =>
              /\ Len(fpgas) = 1
              /\ lan1.interfaces = <<fpgas[1].interfaces[1], fabric.interfaces[1]>>
              /\ lan2.interfaces = <<fpgas[1].interfaces[2], fabric.interfaces[2]>>
              /\ fpgas[1].interfaces[1] # fabric.interfaces[1]
              /\ fpgas[1].interfaces[2] # fabric.interfaces[2]

C6_Witness ==
    /\ pc = "exit"
    /\ params.node_count = 1
    /\ HostCount = 1
    /\ Len(lan1.interfaces) = 2
    /\ Len(lan2.interfaces) = 2
    /\ lan1.vlan_tag = 3119
    /\ lan2.vlan_tag = 3110

(***************************************************************************)
(* C7 as stated: in every state of the assembly each interface created on  *)
(* a SubNode is in exactly one of the two lists (eth0 in the VLAN-1 list,  *)
(* eth1 in the VLAN-2 list), the lists are equally long, their members     *)
(* are in host order, and once the stitch node exists its if0 and if1 are  *)
(* the last elements of the two lists.                                     *)
(***************************************************************************)
Count(list, x) == Cardinality({j \in 1..Len(list) : list[j] = x})

CreatedSubNodeInterfaces ==
    UNION {{fpgas[i].interfaces[k] : k \in 1..Len(fpgas[i].interfaces)} :
              i \in 1..Len(fpgas)}

\* Host interfaces stand at the position of their host; the stitch interface
\* (owner 0) stands only after all of them.
InHostOrder(list) ==
    \A j \in 1..Len(list) :
        \/ list[j].owner = j
        \/ list[j].owner = 0 /\ j = Len(list) /\ j = Len(fpgas) + 1

StitchInterfacesLast ==
    /\ Len(fabric.interfaces) = 2
    /\ interfaces_vlan1 # <<>>
    /\ interfaces_vlan2 # <<>>
    /\ interfaces_vlan1[Len(interfaces_vlan1)] = fabric.interfaces[1]
    /\ interfaces_vlan2[Len(interfaces_vlan2)] = fabric.interfaces[2]

C7_ListsAlwaysBalanced ==
    /\ \A f \in CreatedSubNodeInterfaces :
          /\ f.component_id = "eth0" =>
                (Count(interfaces_vlan1, f) = 1 /\ Count(interfaces_vlan2, f) = 0)
          /\ f.component_id = "eth1" =>
                (Count(interfaces_vlan2, f) = 1 /\ Count(interfaces_vlan1, f) = 0)
    /\ Len(interfaces_vlan1) = Len(interfaces_vlan2)
    /\ InHostOrder(interfaces_vlan1)
    /\ InHostOrder(interfaces_vlan2)
    /\ fabric.present => StitchInterfacesLast

(***************************************************************************)
(* C7 amended: the property holds between the steps of the assembly, that  *)
(* is whenever the run is at the for statement (line 131) and from the     *)
(* end of line 210 on.  Inside an iteration and inside the stitch step an  *)
(* interface exists before it is appended and the VLAN-1 list is one       *)
(* longer than the VLAN-2 list; even there no interface is in a wrong      *)
(* list or in a list twice, and the members are in host order.  From line  *)
(* 210 on the lists are the hosts' eth0 (eth1) interfaces in host order    *)
(* followed by the stitch if0 (if1), and they no longer change.            *)
(***************************************************************************)
C7_ListsBalancedBetweenSteps ==
    /\ \A f \in CreatedSubNodeInterfaces :
          /\ f.component_id \in {"eth0", "eth1"}
          /\ Count(interfaces_vlan1, f) + Count(interfaces_vlan2, f) <= 1
          /\ f.component_id = "eth0" => Count(interfaces_vlan2, f) = 0
          /\ f.component_id = "eth1" => Count(interfaces_vlan1, f) = 0
          /\ (pc = "for_name" \/ LoopDone) =>
                Count(interfaces_vlan1, f) + Count(interfaces_vlan2, f) = 1
    /\ Len(interfaces_vlan1) - Len(interfaces_vlan2) \in {0, 1}
    /\ pc \notin {"append2", "stitch_append2"} =>
          Len(interfaces_vlan1) = Len(interfaces_vlan2)
    /\ InHostOrder(interfaces_vlan1)
    /\ InHostOrder(interfaces_vlan2)
    /\ StitchDone =>
          /\ StitchInterfacesLast
          /\ Len(fpgas) = HostCount
          /\ interfaces_vlan1 =
                [j \in 1..(HostCount + 1) |->
                    IF j <= HostCount THEN fpgas[j].interfaces[1]
                    ELSE fabric.interfaces[1]]
          /\ interfaces_vlan2 =
                [j \in 1..(HostCount + 1) |->
                    IF j <= HostCount THEN fpgas[j].interfaces[2]
                    ELSE fabric.interfaces[2]]
          /\ \A j \in 1..HostCount :
                /\ fpgas[j].interfaces[1].component_id = "eth0"
                /\ fpgas[j].interfaces[2].component_id = "eth1"

C7_Witness ==
    /\ pc = "exit"
    /\ exc = "NameError"
    /\ Len(fpgas) >= 3
    /\ Len(interfaces_vlan1) = Len(fpgas) + 1
    /\ Len(interfaces_vlan2) = Len(fpgas) + 1

(***************************************************************************)
(* C8.  Addresses depend on the position in the host list only: the        *)
(* SubNode of the host at index i has eth0 192.168.1.(10+i) and eth1       *)
(* 192.168.2.(10+i), the stitch node has 192.168.1.(50+N) and              *)
(* 192.168.2.(50+N) for N host names, all with mask 255.255.255.0,         *)
(* whatever ip_subnet is; the addresses in each list are pairwise          *)
(* distinct.                                                               *)
(***************************************************************************)
ExpectedAddress(third, last) ==
    <<[address |-> <<"1", "9", "2", ".", "1", "6", "8", ".", third, ".">>
                       \o TwoDigits(last),
       netmask |-> "255.255.255.0"]>>

C8_AddressesByIndex ==
    /\ \A i \in 1..Len(fpgas) :
          /\ Len(fpgas[i].interfaces) >= 1 =>
                fpgas[i].interfaces[1].addresses = ExpectedAddress("1", 10 + (i - 1))
          /\ Len(fpgas[i].interfaces) >= 2 =>
                fpgas[i].interfaces[2].addresses = ExpectedAddress("2", 10 + (i - 1))
    /\ Len(fabric.interfaces) = 2 =>
          /\ fabric.interfaces[1].addresses = ExpectedAddress("1", 50 + HostCount)
          /\ fabric.interfaces[2].addresses = ExpectedAddress("2", 50 + HostCount)
    /\ \A i, j \in 1..Len(interfaces_vlan1) :
          i # j => interfaces_vlan1[i].addresses # interfaces_vlan1[j].addresses
    /\ \A i, j \in 1..Len(interfaces_vlan2) :
          i # j => interfaces_vlan2[i].addresses # interfaces_vlan2[j].addresses

C8_Witness ==
    /\ pc = "exit"
    /\ subnet.version = 6
    /\ Len(fpgas) = 3
    /\ Len(interfaces_vlan1) = 4
    /\ fabric.interfaces[1].addresses[1].address =
          <<"1", "9", "2", ".", "1", "6", "8", ".", "1", ".", "5", "3">>

(***************************************************************************)
(* C9.  The host loop follows the name list, not node_count: once the      *)
(* loop is over there are as many Nodes and SubNodes as names, whatever    *)
(* node_count is, so more than NODE_MAX Nodes can be created.              *)
(***************************************************************************)
C9_LoopFollowsNameList ==
    /\ LoopDone => (Len(hosts) = HostCount /\ Len(fpgas) = HostCount)
    /\ Len(hosts) <= HostCount
    /\ \A i \in 1..Len(hosts) : hosts[i].client_id = Split(params.nodes, ",")[i]

C9_Witness ==
    /\ LoopDone
    /\ params.node_count = 2
    /\ Len(hosts) > 4
    /\ Len(fpgas) > 4

(***************************************************************************)
(* C10.  A Node has a blockstore if and only if tempFileSystemSize > 0 or  *)
(* tempFileSystemMax is set, the same for every Node of the run; its size  *)
(* is "0GB" when tempFileSystemMax is set, whatever the size parameter,    *)
(* and the requested size in GB otherwise; it is mounted at                *)
(* tempFileSystemMount with placement "any".  With the defaults no Node    *)
(* has one.                                                                *)
(***************************************************************************)
\* The nodes whose blockstore statement (lines 140-149) has been passed.
NodesPastBlockstore ==
    {i \in 1..Len(hosts) : i < Len(hosts) \/ pc # "blockstore"}

C10_BlockstoreRule ==
    \A i \in NodesPastBlockstore :
        /\ hosts[i].blockstore.present <=>
              (params.tempFileSystemSize >= 1 \/ params.tempFileSystemMax = TRUE)
        /\ hosts[i].blockstore.present =>
              /\ hosts[i].blockstore.mount = params.tempFileSystemMount
              /\ hosts[i].blockstore.placement = "any"
              /\ params.tempFileSystemMax => hosts[i].blockstore.size = <<"0", "G", "B">>
              /\ ~params.tempFileSystemMax =>
                    hosts[i].blockstore.size =
                       <<DecDigits[params.tempFileSystemSize + 1], "G", "B">>
        /\ (params.tempFileSystemSize = 0 /\ ~params.tempFileSystemMax) =>
              hosts[i].blockstore = NoBlockstore

C10_Witness ==
    /\ pc = "exit"
    /\ Len(hosts) = 2
    /\ params.tempFileSystemMax
    /\ params.tempFileSystemSize > 0
    /\ params.tempFileSystemMount = "/scratch"
    /\ \A i \in 1..2 : hosts[i].blockstore.size = <<"0", "G", "B">>

====
